---- MODULE Spec2Model ----
(***************************************************************************)
(* A model of the helper scripts of the Ukrainian LLM leaderboard:         *)
(*   - tasks/ukrainian_bench/common_filters.py  (extract_answer_letter)    *)
(*   - reasoning_proxy.py   (ReasoningProxyHandler.do_POST)                *)
(*   - groq_proxy.py        (GroqProxyHandler.do_POST)                     *)
(*                                                                         *)
(* Text is a sequence of symbols.  A symbol is one character, except that  *)
(* the tags and markers the code looks for are single symbols ("<think>",  *)
(* "</think>", "</reasoning>", "Answer:") and "**" is one symbol, so that  *)
(* the marker "**Answer:**" is the three symbols "**", "Answer:", "**"     *)
(* and contains the marker "Answer:" exactly as it does in Python.         *)
(*                                                                         *)
(* Three specifications share the variables; each one leaves the           *)
(* variables of the other two programs at Idle.                            *)
(***************************************************************************)
EXTENDS Integers, Sequences, FiniteSets, TLC

VARIABLES
    pc,        \* position of the running function or handler
    resps,     \* extract_answer_letter: the argument
    results,   \* extract_answer_letter: the list built and returned
    clean,     \* extract_answer_letter: the local `clean` of every iteration
    upstream,  \* proxies: what the upstream answers to the forwarded call
    responses, \* proxies: the responses written to the client, in order
    reasoning_hidden,  \* GroqProxyHandler.reasoning_hidden
    reasoning_effort,  \* GroqProxyHandler.reasoning_effort
    groq_api_key,      \* os.environ["GROQ_API_KEY"]
    path,      \* groq proxy: self.path of the request
    body,      \* groq proxy: the bytes read from the request
    forwarded, \* groq proxy: the bodies sent to the upstream, in order
    escaped    \* groq proxy: the exception that left do_POST, if any

filter_vars == <<resps, results, clean>>
proxy_vars == <<upstream, responses>>
groq_vars == <<reasoning_hidden, reasoning_effort, groq_api_key, path, body,
               forwarded, escaped>>
vars == <<pc, filter_vars, proxy_vars, groq_vars>>

Idle == "idle"

(***************************************************************************)
(* Bounds of the inputs.                                                   *)
(***************************************************************************)
MaxLen == 4      \* symbols in all the responses of one call together
MaxResps == 2    \* responses in one call of a filter
MaxReasoning == 4  \* symbols in the reasoning_content of a message
MaxChoices == 2    \* choices in one upstream response
MaxMsgs == 2       \* entries in the messages list of a request
MaxBody == 2       \* bytes in the body of an upstream answer

(***************************************************************************)
(* Text helpers: Python's str and re primitives on symbol sequences.       *)
(***************************************************************************)
OPEN == "<think>"
CLOSE == "</think>"

\* \s of the re module
IsSpace(c) == c \in {" ", "\n", "\t"}

\* \w of the re module: letters, digits and the underscore.  A tag starts
\* with "<" and ends with ">", so next to a tag there is a word boundary.
IsWordChar(c) == c \in {"a", "b", "c", "d", "A", "B", "C", "D", "x", "y", "_",
                        "1", "2", "3", "4", "7"}

\* str.upper on one character
Upper(c) ==
    CASE c = "a" -> "A" [] c = "b" -> "B" [] c = "c" -> "C" [] c = "d" -> "D"
      [] c = "x" -> "X" [] c = "y" -> "Y" [] OTHER -> c

\* index of the first symbol tok at or after position i, 0 when there is none
RECURSIVE FirstIndex(_, _, _)
FirstIndex(s, i, tok) ==
    IF i > Len(s) THEN 0
    ELSE IF s[i] = tok THEN i
    ELSE FirstIndex(s, i + 1, tok)

\* \s* matched greedily from position i: the first position it does not take
RECURSIVE SkipSpaces(_, _)
SkipSpaces(s, i) ==
    IF i <= Len(s) /\ IsSpace(s[i]) THEN SkipSpaces(s, i + 1) ELSE i

(***************************************************************************)
(* common_filters.py                                                       *)
(***************************************************************************)

\* re.sub(r'<think>.*?</think>\s*', '', s, flags=re.DOTALL), scanning from
\* position i: the leftmost match starts at the first "<think>" that has a
\* "</think>" after it, ends (non-greedy) at the nearest "</think>" and takes
\* the white space that follows; the scan goes on after the match.
RECURSIVE SubPairedFrom(_, _)
SubPairedFrom(s, i) ==
    LET p == FirstIndex(s, i, OPEN)
        q == IF p = 0 THEN 0 ELSE FirstIndex(s, p + 1, CLOSE)
    IN  IF p = 0 \/ q = 0 THEN SubSeq(s, i, Len(s))
        ELSE SubSeq(s, i, p - 1) \o SubPairedFrom(s, SkipSpaces(s, q + 1))

SubPaired(s) == SubPairedFrom(s, 1)

\* re.sub(r'.*?</think>\s*', '', s, flags=re.DOTALL), scanning from position
\* i: a match starts at i whenever a "</think>" is left at or after i, and
\* takes everything up to it and the white space that follows.
RECURSIVE SubDanglingFrom(_, _)
SubDanglingFrom(s, i) ==
    LET q == FirstIndex(s, i, CLOSE)
    IN  IF q = 0 THEN SubSeq(s, i, Len(s))
        ELSE SubDanglingFrom(s, SkipSpaces(s, q + 1))

SubDangling(s) == SubDanglingFrom(s, 1)

\* \b on both sides of the one-character group at position p
AtWordBoundaries(s, p) ==
    /\ (p = 1 \/ ~IsWordChar(s[p - 1]))
    /\ (p = Len(s) \/ ~IsWordChar(s[p + 1]))

\* mutant of SearchFrom: the pattern without its two \b
RECURSIVE SearchFrom_NoBoundary(_, _, _)
SearchFrom_NoBoundary(s, i, class) ==
    IF i > Len(s) THEN 0
    ELSE IF s[i] \in class THEN i
    ELSE SearchFrom_NoBoundary(s, i + 1, class)

\* re.search(r'\b([...])\b', s) for a character class: the position of the
\* leftmost match at or after i, 0 for None
RECURSIVE SearchFrom(_, _, _)
SearchFrom(s, i, class) ==
    IF i > Len(s) THEN 0
    ELSE IF s[i] \in class /\ AtWordBoundaries(s, i) THEN i
    ELSE SearchFrom(s, i + 1, class)

LetterClass == {"A", "B", "C", "D", "a", "b", "c", "d"}    \* [A-Da-d]
DigitClass == {"1", "2", "3", "4"}                          \* [1-4]

num_to_letter(d) ==
    CASE d = "1" -> "A" [] d = "2" -> "B" [] d = "3" -> "C" [] d = "4" -> "D"

\* the two substitutions at the head of the loop body
StripThink(resp) == SubDangling(SubPaired(resp))

\* the rest of the loop body: the value appended to results
AnswerOf(cl) ==
    LET m == SearchFrom(cl, 1, LetterClass)
        n == SearchFrom(cl, 1, DigitClass)
    IN  IF m # 0 THEN Upper(cl[m])
        ELSE IF n # 0 THEN num_to_letter(cl[n])
        ELSE ""

\* the for loop of extract_answer_letter over the responses rs left to read:
\* acc is the list `results` so far
RECURSIVE ResultsLoop(_, _)
ResultsLoop(rs, acc) ==
    IF rs = <<>> THEN acc
    ELSE ResultsLoop(Tail(rs), Append(acc, AnswerOf(StripThink(Head(rs)))))

\* the value of the local `clean` in every iteration of that loop
RECURSIVE CleanLoop(_, _)
CleanLoop(rs, acc) ==
    IF rs = <<>> THEN acc
    ELSE CleanLoop(Tail(rs), Append(acc, StripThink(Head(rs))))

\* extract_answer_letter(resps)
extract_answer_letter ==
    /\ pc = "filter_called"
    /\ clean' = CleanLoop(resps, <<>>)
    /\ results' = ResultsLoop(resps, <<>>)
    /\ pc' = "filter_returned"
    /\ UNCHANGED <<resps, proxy_vars, groq_vars>>

FilterAlphabet == {"b", "D", "3", " ", OPEN, CLOSE}

\* the ways to cut n symbols into k consecutive pieces
Cuts(k, n) ==
    {c \in [0..k -> 0..n] : c[0] = 0 /\ c[k] = n /\ \A j \in 1..k : c[j - 1] <= c[j]}

SplitAt(flat, k, c) == [j \in 1..k |-> SubSeq(flat, c[j - 1] + 1, c[j])]

\* every list of at most MaxResps responses of at most MaxLen symbols in all
FilterInit ==
    /\ pc = "filter_called"
    /\ \E n \in 0..MaxLen : \E flat \in [1..n -> FilterAlphabet] :
         \E k \in 0..MaxResps : \E c \in Cuts(k, n) :
            resps = SplitAt(flat, k, c)
    /\ results = <<>>
    /\ clean = <<>>
    /\ upstream = Idle /\ responses = Idle
    /\ reasoning_hidden = Idle /\ reasoning_effort = Idle /\ groq_api_key = Idle
    /\ path = Idle /\ body = Idle /\ forwarded = Idle /\ escaped = Idle

FilterNext == extract_answer_letter

SpecFilter == FilterInit /\ [][FilterNext]_vars

(***************************************************************************)
(* JSON values and Python dictionaries.                                    *)
(* A JSON value carries its type in t and its payload in v: JStr(text),    *)
(* JNull, JList(sequence), JObj(function from keys to values), JNum, JBool.*)
(* Where the code knows a value to be a dictionary (response_data, a       *)
(* choice, a message) the model writes the function itself.  json.loads    *)
(* and json.dumps are inverse to each other on these values, so a JSON     *)
(* body is modelled by the value it encodes.                               *)
(***************************************************************************)
JStr(s) == [t |-> "str", v |-> s]
JNull == [t |-> "null", v |-> <<>>]

JList(l) == [t |-> "list", v |-> l]
JObj(f) == [t |-> "obj", v |-> f]
JNum(n) == [t |-> "num", v |-> n]
JBool(b) == [t |-> "bool", v |-> b]

\* Python truth of a value
Truthy(x) ==
    CASE x.t = "str" -> x.v # <<>>
      [] x.t = "list" -> x.v # <<>>
      [] x.t = "obj" -> DOMAIN x.v # {}
      [] x.t = "num" -> x.v # 0
      [] x.t = "bool" -> x.v
      [] OTHER -> FALSE

\* d.get(k): None when the key is absent
Get(d, k) == IF k \in DOMAIN d THEN d[k] ELSE JNull

\* d[k] = v
Put(d, k, v) == [x \in DOMAIN d \cup {k} |-> IF x = k THEN v ELSE d[x]]

\* the bodies a handler writes
JsonBody(v) == [t |-> "json", v |-> v]      \* json.dumps(v).encode()
RawBody(b) == [t |-> "raw", v |-> b]        \* bytes relayed as read
ErrorPage(m) == [t |-> "error", v |-> m]    \* send_error(code, m)

Response(status, b) == [status |-> status, body |-> b]

(***************************************************************************)
(* str primitives on symbol sequences                                      *)
(***************************************************************************)
\* s[i:i+len(m)] == m
OccursAt(s, i, m) ==
    /\ i + Len(m) - 1 <= Len(s)
    /\ \A j \in 1..Len(m) : s[i + j - 1] = m[j]

\* s.find(m) for a non-empty m, counted from 1: 0 when m is not in s
RECURSIVE FindFrom(_, _, _)
FindFrom(s, i, m) ==
    IF i + Len(m) - 1 > Len(s) THEN 0
    ELSE IF OccursAt(s, i, m) THEN i
    ELSE FindFrom(s, i + 1, m)

\* s.lstrip(), s.rstrip(), s.strip()
RECURSIVE LStrip(_)
LStrip(s) == IF s # <<>> /\ IsSpace(Head(s)) THEN LStrip(Tail(s)) ELSE s

RECURSIVE RStrip(_)
RStrip(s) ==
    IF s # <<>> /\ IsSpace(s[Len(s)]) THEN RStrip(SubSeq(s, 1, Len(s) - 1)) ELSE s

Strip(s) == RStrip(LStrip(s))

\* s.split('\n'): always at least one piece
RECURSIVE SplitLines(_)
SplitLines(s) ==
    LET i == FirstIndex(s, 1, "\n")
    IN  IF i = 0 THEN <<s>>
        ELSE <<SubSeq(s, 1, i - 1)>> \o SplitLines(SubSeq(s, i + 1, Len(s)))

(***************************************************************************)
(* reasoning_proxy.py                                                      *)
(***************************************************************************)
\* mutant of Markers: the plain "Answer:" is tried before the bold one and
\* the closing tags last
Markers_Reordered ==
    << <<"Answer:">>, <<"**", "Answer:", "**">>, <<"</reasoning>">>, <<"</think>">> >>

\* the list the for loop walks, in its order
Markers ==
    << <<"</think>">>, <<"</reasoning>">>, <<"**", "Answer:", "**">>, <<"Answer:">> >>

\* the marker loop over the markers ms left to try: the content it sets,
\* JNull when it sets none
RECURSIVE MarkerLoop(_, _)
MarkerLoop(reasoning, ms) ==
    IF ms = <<>> THEN JNull
    ELSE LET marker == Head(ms)
             i == FindFrom(reasoning, 1, marker)
             \* parts[1] of reasoning.split(marker, 1)
             after == SubSeq(reasoning, i + Len(marker), Len(reasoning))
         IN  IF i # 0 /\ Strip(after) # <<>>
             THEN JStr(Strip(after))
             ELSE MarkerLoop(reasoning, Tail(ms))

\* [l.strip() for l in reasoning.strip().split('\n') if l.strip()]
StrippedLines(reasoning) ==
    LET ls == SplitLines(Strip(reasoning))
    IN  SelectSeq([j \in 1..Len(ls) |-> Strip(ls[j])], LAMBDA l : l # <<>>)

\* mutant of LastPart: the first line instead of the last
LastPart_FirstLine(reasoning) ==
    LET lines == StrippedLines(reasoning)
    IN  IF lines # <<>> THEN JStr(lines[1]) ELSE JStr(reasoning)

\* the fallback when the marker loop set no content
LastPart(reasoning) ==
    LET lines == StrippedLines(reasoning)
    IN  IF lines # <<>> THEN JStr(lines[Len(lines)]) ELSE JStr(reasoning)

\* mutant of ConvertMessage: the test of message.content is left out
ConvertMessage_IgnoreContent(message) ==
    IF Truthy(Get(message, "reasoning_content"))
    THEN LET reasoning == message["reasoning_content"].v
             found == MarkerLoop(reasoning, Markers)
         IN  IF Truthy(found) THEN Put(message, "content", found)
             ELSE Put(message, "content", LastPart(reasoning))
    ELSE message

\* the body of the loop over choices, on one message
ConvertMessage(message) ==
    IF ~Truthy(Get(message, "content")) /\ Truthy(Get(message, "reasoning_content"))
    THEN LET reasoning == message["reasoning_content"].v
             found == MarkerLoop(reasoning, Markers)
         IN  IF Truthy(found) THEN Put(message, "content", found)
             ELSE Put(message, "content", LastPart(reasoning))
    ELSE message

\* choice.get('message', {}) is a fresh dictionary when the key is absent,
\* so such a choice stays as it is
ConvertChoice(choice) ==
    IF "message" \in DOMAIN choice
    THEN [choice EXCEPT !["message"] = ConvertMessage(@)]
    ELSE choice

\* for choice in response_data['choices'], over the choices cs left
RECURSIVE ChoicesLoop(_, _)
ChoicesLoop(cs, acc) ==
    IF cs = <<>> THEN acc
    ELSE ChoicesLoop(Tail(cs), Append(acc, ConvertChoice(Head(cs))))

ConvertResponse(response_data) ==
    IF "choices" \in DOMAIN response_data
    THEN [response_data EXCEPT !["choices"] = ChoicesLoop(@, <<>>)]
    ELSE response_data

\* ReasoningProxyHandler.do_POST: the request goes to the upstream as it is,
\* and the answer decides the response: the converted body, the upstream's
\* own error, or {"error": str(e)} for a body that is no JSON and for a
\* failure of the network
ReasoningProxy_do_POST ==
    /\ pc = "reasoning_request"
    /\ responses' =
         CASE upstream.kind = "ok" ->
                <<Response(200, JsonBody(ConvertResponse(upstream.data)))>>
           [] upstream.kind = "ok_not_json" ->
                <<Response(500, JsonBody([error |-> JStr(<<"JSONDecodeError">>)]))>>
           [] upstream.kind = "http_error" ->
                <<Response(upstream.code, RawBody(upstream.data))>>
           [] upstream.kind = "net_error" ->
                <<Response(500, JsonBody([error |-> JStr(<<"URLError">>)]))>>
    /\ pc' = "reasoning_done"
    /\ UNCHANGED <<upstream, filter_vars, groq_vars>>

ReasoningAlphabet == {"</think>", "</reasoning>", "**", "Answer:", " ", "\n", "x"}

\* the values of message.content: absent (the key is not there), null,
\* the empty string, an answer
Absent == [t |-> "absent", v |-> <<>>]
ContentValues == {Absent, JNull, JStr(<<>>), JStr(<<"x">>)}

Message(content, reasoning) ==
    LET m0 == [role |-> JStr(<<"assistant">>)]
        m1 == IF content = Absent THEN m0 ELSE Put(m0, "content", content)
    IN  IF reasoning = Absent THEN m1 ELSE Put(m1, "reasoning_content", reasoning)

Choice(message) == [index |-> 0, message |-> message]

\* the choices of the responses with more than one choice
SampleChoices ==
    { Choice(Message(JStr(<<"x">>), JStr(<<"</think>", "**">>))),
      Choice(Message(JStr(<<>>), JStr(<<"x", " ", "</think>", " ", "**">>))),
      Choice(Message(Absent, JStr(<<"x", "\n", "**", "\n", " ", "x", "**">>))),
      Choice(Message(JNull, Absent)),
      [index |-> 0] }

OkData(choices) == [kind |-> "ok", code |-> 200, data |-> [id |-> "cmpl", choices |-> choices]]

ReasoningInit ==
    /\ pc = "reasoning_request"
    /\ \/ \E content \in ContentValues : \E n \in 0..MaxReasoning :
            \E text \in [1..n -> ReasoningAlphabet] :
               upstream = OkData(<<Choice(Message(content, JStr(text)))>>)
       \/ \E content \in ContentValues :
            upstream = OkData(<<Choice(Message(content, Absent))>>)
       \/ \E k \in 0..MaxChoices : \E cs \in [1..k -> SampleChoices] :
            upstream = OkData(cs)
       \/ upstream = [kind |-> "ok", code |-> 200, data |-> [id |-> "cmpl"]]
       \/ upstream = [kind |-> "ok_not_json", code |-> 200, data |-> <<60>>]
       \/ \E code \in {400, 429, 503} :
            upstream = [kind |-> "http_error", code |-> code, data |-> <<123, 125>>]
       \/ upstream = [kind |-> "net_error", code |-> 0, data |-> <<>>]
    /\ responses = <<>>
    /\ resps = Idle /\ results = Idle /\ clean = Idle
    /\ reasoning_hidden = Idle /\ reasoning_effort = Idle /\ groq_api_key = Idle
    /\ path = Idle /\ body = Idle /\ forwarded = Idle /\ escaped = Idle

ReasoningNext == ReasoningProxy_do_POST

SpecReasoning == ReasoningInit /\ [][ReasoningNext]_vars

(***************************************************************************)
(* groq_proxy.py                                                           *)
(***************************************************************************)
\* what a step of the handler gives: a value, or the exception it raised
NoExc == "none"
Ok(x) == [exc |-> NoExc, v |-> x]
Raised(e) == [exc |-> e, v |-> JNull]

\* self.path.endswith("/chat/completions"), the path as its segments
ChatCompletions == <<"chat", "completions">>
EndsWith(p, suffix) ==
    /\ Len(suffix) <= Len(p)
    /\ SubSeq(p, Len(p) - Len(suffix) + 1, Len(p)) = suffix

\* json.loads(body) on the bytes read: an empty body and a malformed text
\* raise JSONDecodeError; bytes that are not UTF-8 raise UnicodeDecodeError,
\* when json.loads decodes them, which is a ValueError but no JSONDecodeError
json_loads(b) ==
    CASE b.kind = "json" -> Ok(b.data)
      [] b.kind = "empty" -> Raised("JSONDecodeError")
      [] b.kind = "malformed" -> Raised("JSONDecodeError")
      [] b.kind = "undecodable" -> Raised("UnicodeDecodeError")

\* mutant of CleanMsg: the message is copied with all its fields, the
\* defaults filled in
CleanMsg_KeepAll(msg) ==
    Put(Put(msg, "role", IF "role" \in DOMAIN msg THEN msg["role"] ELSE JStr(<<"user">>)),
        "content", IF "content" \in DOMAIN msg THEN msg["content"] ELSE JStr(<<>>))

\* cleaned_msg for one msg of the loop, msg a dictionary
CleanMsg(msg) ==
    LET cleaned_msg ==
            [role |-> IF "role" \in DOMAIN msg THEN msg["role"] ELSE JStr(<<"user">>),
             content |-> IF "content" \in DOMAIN msg THEN msg["content"] ELSE JStr(<<>>)]
    IN  IF "name" \in DOMAIN msg /\ Truthy(msg["name"])
        THEN Put(cleaned_msg, "name", msg["name"])
        ELSE cleaned_msg

\* for msg in data["messages"], over the entries left: cleaned_messages, or
\* the AttributeError of msg.get on an entry that is no dictionary
RECURSIVE CleanMessagesLoop(_, _)
CleanMessagesLoop(msgs, cleaned_messages) ==
    IF msgs = <<>> THEN Ok(JList(cleaned_messages))
    ELSE IF Head(msgs).t # "obj" THEN Raised("AttributeError")
    ELSE CleanMessagesLoop(Tail(msgs),
                           Append(cleaned_messages, JObj(CleanMsg(Head(msgs).v))))

\* if "messages" in data: ... data["messages"] = cleaned_messages, data a
\* dictionary.  A messages value that is a non-empty string is walked
\* character by character and a character has no get.
CleanMessages(d) ==
    IF "messages" \notin DOMAIN d THEN Ok(d)
    ELSE IF d["messages"].t = "list"
         THEN LET r == CleanMessagesLoop(d["messages"].v, <<>>)
              IN  IF r.exc = NoExc THEN Ok(Put(d, "messages", r.v)) ELSE r
    ELSE IF d["messages"].t = "str" /\ d["messages"].v # <<>>
         THEN Raised("AttributeError")
    ELSE IF d["messages"].t = "str" THEN Ok(Put(d, "messages", JList(<<>>)))
    ELSE Raised("TypeError")

\* mutant of InjectReasoning: values the caller supplied are kept
InjectReasoning_KeepCaller(d) ==
    IF reasoning_hidden
    THEN LET d1 == IF "reasoning_format" \in DOMAIN d THEN d
                   ELSE Put(d, "reasoning_format", JStr(<<"hidden">>))
         IN  IF "reasoning_effort" \in DOMAIN d1 THEN d1
             ELSE Put(d1, "reasoning_effort", JStr(<<reasoning_effort>>))
    ELSE d

\* if GroqProxyHandler.reasoning_hidden: the two assignments
InjectReasoning(d) ==
    IF reasoning_hidden
    THEN Put(Put(d, "reasoning_format", JStr(<<"hidden">>)),
             "reasoning_effort", JStr(<<reasoning_effort>>))
    ELSE d

\* d.pop(k, None)
Pop(d, k) == [x \in DOMAIN d \ {k} |-> d[x]]

\* mutant of PopUnsupported: extra_body is left in
PopUnsupported_OnlyTokenized(d) == Pop(d, "tokenized_requests")

\* the two pops
PopUnsupported(d) == Pop(Pop(d, "tokenized_requests"), "extra_body")

\* lines 60-80 on the parsed body: the body to forward, or the exception.
\* Only a dictionary gets through: "messages" in data raises TypeError on a
\* number or null, and on a list or a string one of data["messages"], the
\* item assignment or pop(key, None) does.
Transform(data) ==
    IF data.t = "obj"
    THEN LET r == CleanMessages(data.v)
         IN  IF r.exc # NoExc THEN r
             ELSE Ok(JObj(PopUnsupported(InjectReasoning(r.v))))
    ELSE IF data.t = "str" /\ ~reasoning_hidden /\ FindFrom(data.v, 1, <<"messages">>) = 0
         THEN Raised("AttributeError")
    ELSE Raised("TypeError")

(***************************************************************************)
(* bytes.decode("utf-8") and str.encode("utf-8"): bytes are numbers        *)
(* 0..255, a str is a sequence of code points                              *)
(***************************************************************************)
IsCont(b) == 128 <= b /\ b <= 191

\* the length of the well-formed sequence that starts at bs[i], 0 when there
\* is none (strict decoding: no overlong forms, no surrogates, at most U+10FFFF)
Utf8SeqLen(bs, i) ==
    LET b0 == bs[i]
        has(n) == i + n - 1 <= Len(bs) /\ \A j \in 1..(n - 1) : IsCont(bs[i + j])
    IN  CASE b0 <= 127 -> 1
          [] 194 <= b0 /\ b0 <= 223 -> IF has(2) THEN 2 ELSE 0
          [] 224 <= b0 /\ b0 <= 239 ->
                IF has(3) /\ (b0 = 224 => bs[i + 1] >= 160) /\ (b0 = 237 => bs[i + 1] <= 159)
                THEN 3 ELSE 0
          [] 240 <= b0 /\ b0 <= 244 ->
                IF has(4) /\ (b0 = 240 => bs[i + 1] >= 144) /\ (b0 = 244 => bs[i + 1] <= 143)
                THEN 4 ELSE 0
          [] OTHER -> 0

Utf8CodePoint(bs, i, n) ==
    CASE n = 1 -> bs[i]
      [] n = 2 -> (bs[i] - 192) * 64 + (bs[i + 1] - 128)
      [] n = 3 -> (bs[i] - 224) * 4096 + (bs[i + 1] - 128) * 64 + (bs[i + 2] - 128)
      [] n = 4 -> (bs[i] - 240) * 262144 + (bs[i + 1] - 128) * 4096
                    + (bs[i + 2] - 128) * 64 + (bs[i + 3] - 128)

\* bs[i:].decode("utf-8") appended to acc, or UnicodeDecodeError
RECURSIVE Utf8DecodeFrom(_, _, _)
Utf8DecodeFrom(bs, i, acc) ==
    IF i > Len(bs) THEN Ok(acc)
    ELSE LET n == Utf8SeqLen(bs, i)
         IN  IF n = 0 THEN Raised("UnicodeDecodeError")
             ELSE Utf8DecodeFrom(bs, i + n, Append(acc, Utf8CodePoint(bs, i, n)))

Utf8Decode(bs) == Utf8DecodeFrom(bs, 1, <<>>)

Utf8EncodeOne(c) ==
    IF c < 128 THEN <<c>>
    ELSE IF c < 2048 THEN <<192 + (c \div 64), 128 + (c % 64)>>
    ELSE IF c < 65536
    THEN <<224 + (c \div 4096), 128 + ((c \div 64) % 64), 128 + (c % 64)>>
    ELSE <<240 + (c \div 262144), 128 + ((c \div 4096) % 64),
           128 + ((c \div 64) % 64), 128 + (c % 64)>>

RECURSIVE Utf8Encode(_)
Utf8Encode(cs) == IF cs = <<>> THEN <<>> ELSE Utf8EncodeOne(Head(cs)) \o Utf8Encode(Tail(cs))

\* what do_POST has done when it ends
Outcome(sent, written, exc) == [forwarded |-> sent, responses |-> written, escaped |-> exc]

\* lines 95-118: the call of the upstream with body `out` and the relay of
\* its answer.  The decode of the error body runs inside the HTTPError
\* handler, where the except Exception clause next to it catches nothing.
ForwardAndRelay(out) ==
    CASE upstream.kind = "ok" ->
            Outcome(<<out>>, <<Response(200, RawBody(upstream.data))>>, NoExc)
      [] upstream.kind = "http_error" ->
            LET error_body == Utf8Decode(upstream.data)
            IN  IF error_body.exc # NoExc THEN Outcome(<<out>>, <<>>, error_body.exc)
                ELSE Outcome(<<out>>,
                             <<Response(upstream.code, RawBody(Utf8Encode(error_body.v)))>>,
                             NoExc)
      [] upstream.kind = "net_error" ->
            Outcome(<<out>>, <<Response(500, ErrorPage("URLError"))>>, NoExc)

\* GroqProxyHandler.do_POST from its first line to its last
do_POST_outcome ==
    IF ~EndsWith(path, ChatCompletions)
    THEN Outcome(<<>>, <<Response(404, ErrorPage("Not Found"))>>, NoExc)
    ELSE LET data == json_loads(body)
         IN  IF data.exc = "JSONDecodeError"
             THEN Outcome(<<>>, <<Response(400, ErrorPage("Invalid JSON"))>>, NoExc)
             ELSE IF data.exc # NoExc THEN Outcome(<<>>, <<>>, data.exc)
             ELSE LET out == Transform(data.v)
                  IN  IF out.exc # NoExc THEN Outcome(<<>>, <<>>, out.exc)
                      ELSE IF groq_api_key = ""
                      THEN Outcome(<<>>,
                                   <<Response(500, ErrorPage("GROQ_API_KEY not set"))>>,
                                   NoExc)
                      ELSE ForwardAndRelay(out.v)

GroqProxy_do_POST ==
    /\ pc = "groq_request"
    /\ forwarded' = do_POST_outcome.forwarded
    /\ responses' = do_POST_outcome.responses
    /\ escaped' = do_POST_outcome.escaped
    /\ pc' = "groq_done"
    /\ UNCHANGED <<reasoning_hidden, reasoning_effort, groq_api_key, path, body,
                   upstream, filter_vars>>

\* the dictionary with the keys of f whose value is not Absent
MakeDict(f) == [k \in {x \in DOMAIN f : f[x].t # "absent"} |-> f[k]]

\* the entries of a messages list: dictionaries with or without role,
\* content, name (null, empty or not) and a field the upstream does not
\* know, and one entry that is a string
MsgEntries ==
    {JObj(MakeDict([role |-> r, content |-> c, name |-> n, tool_calls |-> x])) :
        r \in {Absent, JStr(<<"system">>)},
        c \in {Absent, JStr(<<"hi">>)},
        n \in {Absent, JNull, JStr(<<>>), JStr(<<"bob">>)},
        x \in {Absent, JStr(<<"call">>)}}
    \cup {JStr(<<"hi">>)}

\* a request body with the given top-level values
RequestData(messages, model, format, effort, tokenized, extra) ==
    JObj(MakeDict([messages |-> messages, model |-> model, reasoning_format |-> format,
                   reasoning_effort |-> effort, tokenized_requests |-> tokenized,
                   extra_body |-> extra]))

JsonBytes(data) == [kind |-> "json", data |-> data]

SampleMessages ==
    JList(<< JObj([role |-> JStr(<<"user">>), content |-> JStr(<<"hi">>),
                   name |-> JStr(<<>>), tool_calls |-> JStr(<<"call">>)]),
             JObj([content |-> JStr(<<"hi">>), name |-> JStr(<<"bob">>)]) >>)

SampleRequest ==
    RequestData(SampleMessages, JStr(<<"gpt">>), Absent, Absent, Absent, Absent)

\* request bodies that are no JSON object
OtherBodies ==
    { [kind |-> "empty", data |-> JNull],
      [kind |-> "malformed", data |-> JNull],
      [kind |-> "undecodable", data |-> JNull],
      JsonBytes(JList(<<>>)),
      JsonBytes(JStr(<<"messages">>)),
      JsonBytes(JStr(<<"hi">>)),
      JsonBytes(JNum(5)),
      JsonBytes(JNull) }

Paths ==
    { <<"v1", "chat", "completions">>, <<"chat", "completions">>, <<"v1", "models">>,
      <<"v1", "chat", "completions", "?stream">>, <<"completions">>, <<>> }

ByteValues == {65, 169, 195, 255}    \* "A", a continuation byte, a lead byte, no UTF-8 byte
ErrorCodes == {400, 429, 503}

OkReply == [kind |-> "ok", code |-> 200, data |-> <<65>>]

\* main(): the flags are set from the command line (effort is one of three
\* choices) and the server starts only with GROQ_API_KEY set.  The request
\* and the answer of the upstream are drawn so that each part varies over
\* all its values while the others hold a sample.
GroqInit ==
    /\ pc = "groq_request"
    /\ reasoning_hidden \in BOOLEAN
    /\ reasoning_effort \in {"low", "medium", "high"}
    /\ groq_api_key = "gsk"
    /\ \/ \* every messages list, in a body with few or with all other keys
          /\ path = <<"v1", "chat", "completions">>
          /\ upstream = OkReply
          /\ \E k \in 0..MaxMsgs : \E ms \in [1..k -> MsgEntries] : \E full \in BOOLEAN :
               body = JsonBytes(
                        IF full
                        THEN RequestData(JList(ms), JStr(<<"gpt">>), JStr(<<"parsed">>),
                                         JStr(<<"high">>), JBool(FALSE), JObj(<<>>))
                        ELSE RequestData(JList(ms), Absent, Absent, Absent, Absent, Absent))
       \/ \* every combination of the top-level keys
          /\ path = <<"v1", "chat", "completions">>
          /\ upstream = OkReply
          /\ \E messages \in {Absent, JList(<<>>), SampleMessages, JStr(<<"hi">>), JStr(<<>>), JNull} :
             \E model \in {Absent, JStr(<<"gpt">>)} :
             \E format \in {Absent, JStr(<<"parsed">>)} :
             \E effort \in {Absent, JStr(<<"high">>)} :
             \E tokenized \in {Absent, JBool(FALSE)} :
             \E extra \in {Absent, JObj(<<>>), JObj([top_k |-> JNum(5)])} :
               body = JsonBytes(RequestData(messages, model, format, effort, tokenized, extra))
       \/ \* every answer of the upstream
          /\ path = <<"v1", "chat", "completions">>
          /\ body = JsonBytes(SampleRequest)
          /\ \E n \in 0..MaxBody : \E bs \in [1..n -> ByteValues] :
               \/ upstream = [kind |-> "ok", code |-> 200, data |-> bs]
               \/ \E code \in ErrorCodes :
                    upstream = [kind |-> "http_error", code |-> code, data |-> bs]
               \/ upstream = [kind |-> "net_error", code |-> 0, data |-> <<>>]
       \/ \* every path, with bodies that are JSON objects and bodies that are not
          /\ path \in Paths
          /\ upstream = OkReply
          /\ body \in OtherBodies \cup {JsonBytes(SampleRequest)}
    /\ forwarded = <<>> /\ responses = <<>> /\ escaped = NoExc
    /\ resps = Idle /\ results = Idle /\ clean = Idle

GroqNext == GroqProxy_do_POST

SpecGroq == GroqInit /\ [][GroqNext]_vars

(***************************************************************************)
(* Properties of the Response Normalizer (reasoning_proxy.py)              *)
(***************************************************************************)
SetMin(S) == CHOOSE x \in S : \A y \in S : x <= y
SetMax(S) == CHOOSE x \in S : \A y \in S : x >= y

\* the positions of s that hold something other than white space
Ref_Ink(s) == {i \in 1..Len(s) : ~IsSpace(s[i])}

\* s without its leading and trailing white space
Ref_Trim(s) ==
    IF Ref_Ink(s) = {} THEN <<>> ELSE SubSeq(s, SetMin(Ref_Ink(s)), SetMax(Ref_Ink(s)))

\* the markers in their priority order
Ref_Markers ==
    << <<"</think>">>, <<"</reasoning>">>, <<"**", "Answer:", "**">>, <<"Answer:">> >>

\* where marker m occurs in s
Ref_Occurrences(s, m) ==
    {i \in 1..Len(s) : i + Len(m) - 1 <= Len(s) /\ SubSeq(s, i, i + Len(m) - 1) = m}

\* the text that follows the first occurrence of m in s
Ref_After(s, m) == SubSeq(s, SetMin(Ref_Occurrences(s, m)) + Len(m), Len(s))

\* the markers that occur in s with non-empty trimmed trailing text
Ref_Yielding(s) ==
    {j \in 1..Len(Ref_Markers) :
        /\ Ref_Occurrences(s, Ref_Markers[j]) # {}
        /\ Ref_Trim(Ref_After(s, Ref_Markers[j])) # <<>>}

\* the last of the non-empty trimmed lines of s, which has at least one
Ref_LastLine(s) ==
    LET last == SetMax(Ref_Ink(s))
        breaks == {j \in 1..last : s[j] = "\n"}
        from == IF breaks = {} THEN 1 ELSE SetMax(breaks) + 1
    IN  SubSeq(s, SetMin({j \in from..last : ~IsSpace(s[j])}), last)

\* the handler has relayed an upstream answer that carries choices
R_Relayed ==
    /\ pc = "reasoning_done"
    /\ upstream.kind = "ok"
    /\ "choices" \in DOMAIN upstream.data

R_In(i) == upstream.data["choices"][i]
R_Out(i) == responses[1].body.v["choices"][i]
R_Reasoning(i) == R_In(i)["message"]["reasoning_content"].v

\* choice i came with empty or absent content and non-empty reasoning_content
R_Lacking(i) ==
    /\ "message" \in DOMAIN R_In(i)
    /\ ~Truthy(Get(R_In(i)["message"], "content"))
    /\ Truthy(Get(R_In(i)["message"], "reasoning_content"))

\* C4: a choice with empty or absent content and non-empty reasoning_content
\* gets as content the trimmed text after the first occurrence of the first
\* marker, in the order </think>, </reasoning>, **Answer:**, Answer:, that
\* occurs with non-empty trimmed trailing text; lower markers are not used.
C4_MarkerPriority ==
    R_Relayed =>
        /\ Len(responses) = 1 /\ responses[1].status = 200
        /\ Len(responses[1].body.v["choices"]) = Len(upstream.data["choices"])
        /\ \A i \in 1..Len(upstream.data["choices"]) :
             (R_Lacking(i) /\ Ref_Yielding(R_Reasoning(i)) # {}) =>
                R_Out(i)["message"]["content"] =
                    JStr(Ref_Trim(Ref_After(R_Reasoning(i),
                                            Ref_Markers[SetMin(Ref_Yielding(R_Reasoning(i)))])))
        \* "blah </think> 42" yields "42"
        /\ \A i \in 1..Len(upstream.data["choices"]) :
             (R_Lacking(i) /\ R_Reasoning(i) = <<"x", " ", "</think>", " ", "**">>) =>
                R_Out(i)["message"]["content"] = JStr(<<"**">>)

\* "Answer:" comes first in the text and "</think>" later: the text after
\* "</think>" is the content
C4_Witness ==
    /\ R_Relayed
    /\ \E i \in 1..Len(upstream.data["choices"]) :
         /\ R_Lacking(i)
         /\ R_Reasoning(i) = <<"Answer:", "x", "</think>", "**">>
         /\ R_Out(i)["message"]["content"] = JStr(<<"**">>)

\* C5: a choice whose content is already non-empty is relayed as it came,
\* content and reasoning_content alike, whatever reasoning_content holds.
C5_ContentKept ==
    R_Relayed =>
        \A i \in 1..Len(upstream.data["choices"]) :
            ("message" \in DOMAIN R_In(i) /\ Truthy(Get(R_In(i)["message"], "content"))) =>
                R_Out(i) = R_In(i)

\* a choice with content and with a marker that has trailing text was relayed
C5_Witness ==
    /\ R_Relayed
    /\ \E i \in 1..Len(upstream.data["choices"]) :
         /\ "message" \in DOMAIN R_In(i)
         /\ Truthy(Get(R_In(i)["message"], "content"))
         /\ Truthy(Get(R_In(i)["message"], "reasoning_content"))
         /\ Ref_Yielding(R_Reasoning(i)) # {}
         /\ R_Out(i) = R_In(i)

\* C6 as stated: when no marker yields trailing text, content is the last
\* non-empty trimmed line of reasoning_content, or the full trimmed
\* reasoning_content when it has no non-empty line.
C6_FallbackTrimmed ==
    R_Relayed =>
        \A i \in 1..Len(upstream.data["choices"]) :
            (R_Lacking(i) /\ Ref_Yielding(R_Reasoning(i)) = {}) =>
                R_Out(i)["message"]["content"] =
                    IF Ref_Ink(R_Reasoning(i)) # {}
                    THEN JStr(Ref_LastLine(R_Reasoning(i)))
                    ELSE JStr(Ref_Trim(R_Reasoning(i)))

\* C6 amended: when no marker yields trailing text, content is the last
\* non-empty trimmed line of reasoning_content, or reasoning_content itself,
\* untrimmed, when it has no non-empty line.
C6_FallbackLastLine ==
    R_Relayed =>
        \A i \in 1..Len(upstream.data["choices"]) :
            (R_Lacking(i) /\ Ref_Yielding(R_Reasoning(i)) = {}) =>
                R_Out(i)["message"]["content"] =
                    IF Ref_Ink(R_Reasoning(i)) # {}
                    THEN JStr(Ref_LastLine(R_Reasoning(i)))
                    ELSE JStr(R_Reasoning(i))

\* two non-empty lines and no marker: the second line, trimmed, is the content
C6_Witness ==
    /\ R_Relayed
    /\ \E i \in 1..Len(upstream.data["choices"]) :
         /\ R_Lacking(i)
         /\ R_Reasoning(i) = <<"x", "\n", " ", "**">>
         /\ R_Out(i)["message"]["content"] = JStr(<<"**">>)

(***************************************************************************)
(* Properties of extract_answer_letter (common_filters.py)                 *)
(***************************************************************************)
\* the positions of s that hold symbol tok
Ref_Positions(s, tok) == {i \in 1..Len(s) : s[i] = tok}

\* the first position at or after j that is past the end or not white space
Ref_SkipWs(s, j) == SetMin({k \in j..(Len(s) + 1) : k = Len(s) + 1 \/ ~IsSpace(s[k])})

\* what is left of s after its last "</think>" and the white space behind it
Ref_Tail(s) == SubSeq(s, Ref_SkipWs(s, SetMax(Ref_Positions(s, CLOSE)) + 1), Len(s))

IsSuffix(u, s) == Len(u) <= Len(s) /\ SubSeq(s, Len(s) - Len(u) + 1, Len(s)) = u

\* the positions of s that hold a character of the class as a word of its own
Ref_Standalone(s, class) ==
    {i \in 1..Len(s) :
        /\ s[i] \in class
        /\ (i > 1 => ~IsWordChar(s[i - 1]))
        /\ (i < Len(s) => ~IsWordChar(s[i + 1]))}

Ref_Letters == {<<"a", "A">>, <<"b", "B">>, <<"c", "C">>, <<"d", "D">>,
                <<"A", "A">>, <<"B", "B">>, <<"C", "C">>, <<"D", "D">>}
Ref_Digits == {<<"1", "A">>, <<"2", "B">>, <<"3", "C">>, <<"4", "D">>}

\* the thinking blocks are gone from cl, the cleaned form of response r
Ref_Cleaned(r, cl) ==
    /\ Ref_Positions(cl, CLOSE) = {}
    /\ Ref_Positions(r, CLOSE) = {} => cl = r
    /\ Ref_Positions(r, CLOSE) # {} => IsSuffix(Ref_Tail(r), cl)
    \* only dangling closing tags: everything up to the last one goes
    /\ (Ref_Positions(r, CLOSE) # {} /\ Ref_Positions(r, OPEN) = {}) => cl = Ref_Tail(r)
    \* one paired block: the block and the white space behind it go
    /\ \A p, q \in 1..Len(r) :
          (Ref_Positions(r, OPEN) = {p} /\ Ref_Positions(r, CLOSE) = {q} /\ p < q) =>
              cl = SubSeq(r, 1, p - 1) \o SubSeq(r, Ref_SkipWs(r, q + 1), Len(r))

\* a is the answer read from the cleaned response cl
Ref_Answer(cl, a) ==
    LET letters == Ref_Standalone(cl, {x[1] : x \in Ref_Letters})
        digits == Ref_Standalone(cl, {x[1] : x \in Ref_Digits})
    IN  /\ a \in {"A", "B", "C", "D", ""}
        /\ letters # {} => <<cl[SetMin(letters)], a>> \in Ref_Letters
        /\ (letters = {} /\ digits # {}) => <<cl[SetMin(digits)], a>> \in Ref_Digits
        /\ (letters = {} /\ digits = {}) => a = ""

\* C10: the result of extract_answer_letter(resps) is as long as resps, and
\* element i is read from resps[i] without its thinking blocks: the first
\* letter A-D or a-d that stands alone, upper-cased; failing that the letter
\* for the first digit 1-4 that stands alone (1 -> A ... 4 -> D); failing
\* that the empty string.  ["3"] gives ["C"].
C10_ExtractAnswerLetter ==
    pc = "filter_returned" =>
        /\ Len(results) = Len(resps)
        /\ Len(clean) = Len(resps)
        /\ \A i \in 1..Len(resps) :
             /\ Ref_Cleaned(resps[i], clean[i])
             /\ Ref_Answer(clean[i], results[i])
        /\ resps = << <<"3">> >> => results = <<"C">>

\* a thinking block was removed from the first response and its letter read,
\* the second response held a digit only
C10_Witness ==
    /\ pc = "filter_returned"
    /\ resps = << <<OPEN, CLOSE, "b">>, <<"3">> >>
    /\ results = <<"B", "C">>

(***************************************************************************)
(* Properties of the Request Normalizer (groq_proxy.py)                    *)
(***************************************************************************)
\* the handler has ended and has sent a body to the upstream
G_Forwarded == pc = "groq_done" /\ forwarded # <<>>

G_In == body.data.v          \* the inbound body, a dictionary when forwarded
G_Out == forwarded[1].v      \* the forwarded body

Ref_NonEmpty(x) == x.t = "str" /\ x.v # <<>>

\* C1: when the inbound body has a messages list, the forwarded body has as
\* many messages in the same order, each with exactly the keys role and
\* content, and name if and only if the inbound entry had a non-empty name;
\* role defaults to "user", content to "", and no other field is kept.
C1_MessagesNormalized ==
    (G_Forwarded /\ "messages" \in DOMAIN G_In /\ G_In["messages"].t = "list") =>
        /\ Len(forwarded) = 1
        /\ "messages" \in DOMAIN G_Out
        /\ G_Out["messages"].t = "list"
        /\ Len(G_Out["messages"].v) = Len(G_In["messages"].v)
        /\ \A i \in 1..Len(G_In["messages"].v) :
             LET m == G_In["messages"].v[i].v
                 o == G_Out["messages"].v[i]
                 named == "name" \in DOMAIN m /\ Ref_NonEmpty(m["name"])
             IN  /\ o.t = "obj"
                 /\ DOMAIN o.v = {"role", "content"} \cup (IF named THEN {"name"} ELSE {})
                 /\ o.v["role"] = IF "role" \in DOMAIN m THEN m["role"] ELSE JStr(<<"user">>)
                 /\ o.v["content"] = IF "content" \in DOMAIN m THEN m["content"] ELSE JStr(<<>>)
                 /\ named => o.v["name"] = m["name"]

\* two messages were forwarded: the first came with an empty name and a
\* field the upstream does not know, the second with a name and no role
C1_Witness ==
    /\ G_Forwarded
    /\ "messages" \in DOMAIN G_In
    /\ G_In["messages"] =
         JList(<< JObj([role |-> JStr(<<"system">>), content |-> JStr(<<"hi">>),
                        name |-> JStr(<<>>), tool_calls |-> JStr(<<"call">>)]),
                  JObj([content |-> JStr(<<"hi">>), name |-> JStr(<<"bob">>)]) >>)
    /\ G_Out["messages"] =
         JList(<< JObj([role |-> JStr(<<"system">>), content |-> JStr(<<"hi">>)]),
                  JObj([role |-> JStr(<<"user">>), content |-> JStr(<<"hi">>),
                        name |-> JStr(<<"bob">>)]) >>)

\* C2: a POST whose path does not end with /chat/completions is answered
\* 404, one whose body is no well-formed JSON (empty and undecodable bodies
\* included) is answered 400, and neither reaches the upstream.
C2_ClientErrorsAnswered ==
    (pc = "groq_done" /\ (~EndsWith(path, ChatCompletions) \/ body.kind # "json")) =>
        /\ forwarded = <<>>
        /\ Len(responses) = 1
        /\ responses[1].status = IF ~EndsWith(path, ChatCompletions) THEN 404 ELSE 400

\* C3: when the upstream answers with an HTTP error, the client receives
\* the upstream's status code and the upstream's body byte for byte, for
\* every byte sequence.
C3_ErrorRelayedVerbatim ==
    (G_Forwarded /\ upstream.kind = "http_error") =>
        responses = <<Response(upstream.code, RawBody(upstream.data))>>

\* C7: a POST that passes the path check and the JSON parse ends with
\* exactly one response: the relay of the upstream's answer or a 5xx; no
\* failure leaves the handler without a response.
C7_ExactlyOneResponse ==
    (pc = "groq_done" /\ EndsWith(path, ChatCompletions) /\ body.kind = "json") =>
        /\ escaped = NoExc
        /\ Len(responses) = 1
        /\ \/ responses[1].status = 200 /\ upstream.kind = "ok"
           \/ responses[1].status = upstream.code /\ upstream.kind = "http_error"
           \/ responses[1].status \in 500..599

\* C8: the forwarded body has neither tokenized_requests nor extra_body,
\* and every other top-level key of the inbound body, messages and the two
\* reasoning keys apart, is forwarded with its value.
C8_UnsupportedRemoved ==
    G_Forwarded =>
        /\ "tokenized_requests" \notin DOMAIN G_Out
        /\ "extra_body" \notin DOMAIN G_Out
        /\ \A k \in DOMAIN G_In \ {"messages", "reasoning_format", "reasoning_effort",
                                   "tokenized_requests", "extra_body"} :
             k \in DOMAIN G_Out /\ G_Out[k] = G_In[k]
        /\ DOMAIN G_Out \subseteq DOMAIN G_In \cup {"reasoning_format", "reasoning_effort"}

\* a body that came with both unsupported keys and a model was forwarded
C8_Witness ==
    /\ G_Forwarded
    /\ {"tokenized_requests", "extra_body", "model"} \subseteq DOMAIN G_In
    /\ Truthy(G_In["extra_body"])
    /\ "model" \in DOMAIN G_Out

\* C9: with the hide-reasoning flag set and effort e, the forwarded body has
\* reasoning_format = "hidden" and reasoning_effort = e, whatever the caller
\* supplied; with the flag not set, the two keys are forwarded as they came.
C9_ReasoningInjected ==
    G_Forwarded =>
        /\ reasoning_hidden =>
             /\ {"reasoning_format", "reasoning_effort"} \subseteq DOMAIN G_Out
             /\ G_Out["reasoning_format"] = JStr(<<"hidden">>)
             /\ G_Out["reasoning_effort"] = JStr(<<reasoning_effort>>)
        /\ ~reasoning_hidden =>
             \A k \in {"reasoning_format", "reasoning_effort"} :
                /\ k \in DOMAIN G_Out <=> k \in DOMAIN G_In
                /\ k \in DOMAIN G_In => G_Out[k] = G_In[k]

\* the flag is set with effort medium and the caller's own values for the
\* two keys were overridden
C9_Witness ==
    /\ G_Forwarded
    /\ reasoning_hidden /\ reasoning_effort = "medium"
    /\ {"reasoning_format", "reasoning_effort"} \subseteq DOMAIN G_In
    /\ G_In["reasoning_format"] = JStr(<<"parsed">>)
    /\ G_In["reasoning_effort"] = JStr(<<"high">>)
    /\ G_Out["reasoning_format"] = JStr(<<"hidden">>)
    /\ G_Out["reasoning_effort"] = JStr(<<"medium">>)

====
